---- MODULE Spec2Model ----
(***************************************************************************)
(* A model of astroquery.cadc.core.CadcClass: the DataLink resolver        *)
(* (get_data_urls), the registry parser (_parse_reg), the query builder    *)
(* (_args_to_payload, query_region_async), the query dispatcher            *)
(* (run_query) and result extraction (_parse_result).                      *)
(*                                                                         *)
(* Python values are represented as follows.  A str or bytes value is a    *)
(* sequence of one-character strings, except for fixed pieces of text that *)
(* the code never looks into, which are single TLA+ strings.  None is the  *)
(* string "None" where the other values are strings.  An exception is a    *)
(* record [type, msg].                                                     *)
(***************************************************************************)
EXTENDS Integers, Sequences, FiniteSets, TLC

VARIABLES
    \* get_data_urls
    query_result,        \* the table passed by the caller
    include_auxilaries,  \* the flag passed by the caller
    datalink,            \* the DataLink service: publisher id -> HTTP response
    gdu_pc,              \* "idle", "loop", "returned" or "raised"
    idx,                 \* number of publisher ids the loop has consumed
    result,              \* the local list `result`
    requests,            \* the HTTP GETs issued so far by this call
    gdu_ret,             \* what the call gave back: [value] or [error]
    \* _parse_reg
    reg_pc,              \* "idle" or "done"
    reg_content,         \* the registry document passed to _parse_reg
    reg_ret,             \* what _parse_reg gave back: [value] or [error]
    \* query_region_async, query_name_async, query_async, run_query,
    \* _parse_result
    q_pc,                \* "idle", "done" or "parsed"
    q_call,              \* the method called and its arguments
    q_ret,               \* what the method gave back: [kind, value] or [error]
    tap_calls,           \* the calls made on the TAP client by the method
    tap_job,             \* the job the TAP client returned for the launch
    job_calls,           \* the calls made on the local Job by the method
    parsed,              \* what _parse_result gave back for the Job of q_ret
    \* __init__, get_tables, get_table, load_async_job, list_async_jobs,
    \* save_results, logout
    f_pc,                \* "new", "failed", "idle" or "done"
    cadctap,             \* the TAP client the object holds (self.__cadctap)
    f_call,              \* the method called and its arguments
    f_answer,            \* what the TAP client did when called
    f_ret,               \* what the method gave back: [kind, value] or [error]
    f_calls              \* the calls made on TAP clients by the method

dl_vars == <<query_result, include_auxilaries, datalink, gdu_pc, idx, result,
             requests, gdu_ret>>

reg_vars == <<reg_pc, reg_content, reg_ret>>

q_vars == <<q_pc, q_call, q_ret, tap_calls, tap_job, job_calls, parsed>>

f_vars == <<f_pc, cadctap, f_call, f_answer, f_ret, f_calls>>

vars == <<dl_vars, reg_vars, q_vars, f_vars>>

None == "None"

SeqsUpTo(S, n) == UNION {[1..k -> S] : k \in 0..n}

(***************************************************************************)
(* Exceptions the code raises.                                             *)
(***************************************************************************)
NoError == [type |-> "None", msg |-> ""]

MissingMetadataError ==
    [type |-> "AttributeError", msg |-> "Missing metadata argument"]

MissingPublisherIDError ==
    [type |-> "AttributeError",
     msg |-> "caomPublisherID column missing from query_result argument"]

HTTPError == [type |-> "requests.exceptions.HTTPError", msg |-> "status"]

(***************************************************************************)
(* get_data_urls: inputs.                                                  *)
(***************************************************************************)
MaxIds == 3
MaxRows == 2

DATALINK_URL == "http://www.cadc-ccda.hia-iha.nrc-cnrc.gc.ca/caom2ops/datalink"

PublisherIDs == {"ivo://cadc.nrc.ca/p1", "ivo://cadc.nrc.ca/p2"}

SemanticsTags == {"#this", "#preview"}

\* A result table: whether it has a caomPublisherID column, and its rows
\* (each row given by its publisher id).  bool(table) is len(table) > 0.
Tables == [hasPublisherID : BOOLEAN, rows : SeqsUpTo(PublisherIDs, MaxIds)]

\* The k-th link of publisher id pid; the empty bytes value is <<>>.
AccessUrl(pid, k) == <<pid, k>>

RowKinds == SemanticsTags \X BOOLEAN

VOTable(pid, kinds) ==
    [k \in 1..Len(kinds) |->
        [semantics |-> kinds[k][1],
         access_url |-> IF kinds[k][2] THEN AccessUrl(pid, k) ELSE <<>>]]

OkResponses(pid) ==
    {[status_code |-> 200, content |-> VOTable(pid, ks)] :
        ks \in SeqsUpTo(RowKinds, MaxRows)}

ErrorResponses == {[status_code |-> 404, content |-> <<>>]}

\* During one call the service answers a publisher id the same way each time.
RECURSIVE ServicesOver(_)
ServicesOver(P) ==
    IF P = {} THEN {<<>>}
    ELSE LET p == CHOOSE x \in P : TRUE
         IN  {(p :> r) @@ svc : r \in OkResponses(p) \cup ErrorResponses,
                                svc \in ServicesOver(P \ {p})}

DataLinkServices == ServicesOver(PublisherIDs)

\* A raise_for_status that lets client errors (4xx) through.
raise_for_status_5xx_only(response) ==
    response.status_code >= 500 /\ response.status_code < 600

\* requests.Response.raise_for_status raises for 4xx and 5xx.
raise_for_status(response) ==
    response.status_code >= 400 /\ response.status_code < 600

\* bytes.decode('ascii') of an ASCII value gives the same characters.
decode_ascii(b) == b

\* Truth value of a bytes object.
Truthy(b) == Len(b) > 0

\* The row loop with the auxiliary rows taken whatever their access_url is.
RECURSIVE row_loop_any_url(_, _, _, _)
row_loop_any_url(rows, k, incl, acc) ==
    IF k > Len(rows) THEN acc
    ELSE LET row == rows[k]
         IN  IF row.semantics = "#this" \/ incl
             THEN row_loop_any_url(rows, k + 1, incl,
                                   Append(acc, decode_ascii(row.access_url)))
             ELSE row_loop_any_url(rows, k + 1, incl, acc)

\* The row loop with each URL put in front of the list instead of at its end.
RECURSIVE row_loop_prepend(_, _, _, _)
row_loop_prepend(rows, k, incl, acc) ==
    IF k > Len(rows) THEN acc
    ELSE LET row == rows[k]
         IN  IF row.semantics = "#this" \/ (Truthy(row.access_url) /\ incl)
             THEN row_loop_prepend(rows, k + 1, incl,
                                   <<decode_ascii(row.access_url)>> \o acc)
             ELSE row_loop_prepend(rows, k + 1, incl, acc)

\* The loop over tb.array (lines 248-253), rows[k..] appended to acc.
RECURSIVE row_loop(_, _, _, _)
row_loop(rows, k, incl, acc) ==
    IF k > Len(rows) THEN acc
    ELSE LET row == rows[k]
             semantics == decode_ascii(row.semantics)
         IN  IF semantics = "#this"
             THEN row_loop(rows, k + 1, incl,
                           Append(acc, decode_ascii(row.access_url)))
             ELSE IF Truthy(row.access_url) /\ incl
             THEN row_loop(rows, k + 1, incl,
                           Append(acc, decode_ascii(row.access_url)))
             ELSE row_loop(rows, k + 1, incl, acc)

NoTable == [hasPublisherID |-> TRUE, rows |-> <<>>]

NoService == [p \in PublisherIDs |-> [status_code |-> 404, content |-> <<>>]]

NoOutcome == [status |-> "none"]

DLInit ==
    /\ query_result = NoTable
    /\ include_auxilaries = FALSE
    /\ datalink = NoService
    /\ gdu_pc = "idle"
    /\ idx = 0
    /\ result = <<>>
    /\ requests = <<>>
    /\ gdu_ret = NoOutcome

\* The argument checks with the column looked up before the emptiness test.
check_query_result_column_first(t) ==
    IF ~t.hasPublisherID THEN MissingPublisherIDError
    ELSE IF Len(t.rows) = 0 THEN MissingMetadataError
    ELSE NoError

\* The argument checks (lines 231-238): the exception raised, or NoError.
check_query_result(t) ==
    IF Len(t.rows) = 0 THEN MissingMetadataError
    ELSE IF ~t.hasPublisherID THEN MissingPublisherIDError
    ELSE NoError

\* get_data_urls up to the loop (lines 231-239).
get_data_urls_call(t, incl, svc) ==
    /\ query_result' = t
    /\ include_auxilaries' = incl
    /\ datalink' = svc
    /\ idx' = 0
    /\ result' = <<>>
    /\ requests' = <<>>
    /\ LET err == check_query_result(t)
       IN  IF err # NoError
           THEN /\ gdu_pc' = "raised"
                /\ gdu_ret' = [status |-> "raised", error |-> err]
           ELSE /\ gdu_pc' = "loop"
                /\ gdu_ret' = NoOutcome

\* One iteration of `for pid in publisher_ids` (lines 240-253), and the
\* return (line 254) after the last one.
get_data_urls_step ==
    /\ gdu_pc = "loop"
    /\ idx < Len(query_result.rows)
    /\ LET pid == query_result.rows[idx + 1]
           response == datalink[pid]
       IN  /\ requests' = Append(requests, [url |-> DATALINK_URL,
                                            params |-> [ID |-> pid]])
           /\ IF raise_for_status(response)
              THEN /\ gdu_pc' = "raised"
                   /\ gdu_ret' = [status |-> "raised", error |-> HTTPError]
                   /\ UNCHANGED <<idx, result>>
              ELSE LET res == row_loop(response.content, 1,
                                       include_auxilaries, result)
                   IN  /\ result' = res
                       /\ idx' = idx + 1
                       /\ IF idx + 1 = Len(query_result.rows)
                          THEN /\ gdu_pc' = "returned"
                               /\ gdu_ret' = [status |-> "returned",
                                              value |-> res]
                          ELSE /\ gdu_pc' = "loop"
                               /\ UNCHANGED gdu_ret
    /\ UNCHANGED <<query_result, include_auxilaries, datalink>>
    /\ UNCHANGED <<reg_vars, q_vars, f_vars>>

\* The caller has the outcome and the call's locals are gone; the next call
\* starts afresh.
get_data_urls_done ==
    /\ gdu_pc \in {"returned", "raised"}
    /\ query_result' = NoTable
    /\ include_auxilaries' = FALSE
    /\ datalink' = NoService
    /\ gdu_pc' = "idle"
    /\ idx' = 0
    /\ result' = <<>>
    /\ requests' = <<>>
    /\ gdu_ret' = NoOutcome
    /\ UNCHANGED <<reg_vars, q_vars, f_vars>>

GetDataUrls ==
    /\ gdu_pc = "idle"
    /\ \E t \in Tables, incl \in BOOLEAN, svc \in DataLinkServices :
           get_data_urls_call(t, incl, svc)
    /\ UNCHANGED <<reg_vars, q_vars, f_vars>>

DLNext ==
    \/ GetDataUrls
    \/ get_data_urls_step
    \/ get_data_urls_done

(***************************************************************************)
(* _parse_reg: the registry document is a str, a sequence of characters.   *)
(***************************************************************************)
MaxContentLen == 6

NL == "\n"

RegistryChars == {"a", " ", "=", "#", NL}

RegistryDocuments == SeqsUpTo(RegistryChars, MaxContentLen)

Whitespace == {" ", NL}

ValueErrorNotEnough ==
    [type |-> "ValueError", msg |-> "not enough values to unpack"]

ValueErrorTooMany ==
    [type |-> "ValueError", msg |-> "too many values to unpack"]

\* The position of the first character c of s from position k on, or 0.
RECURSIVE find(_, _, _)
find(s, c, k) ==
    IF k > Len(s) THEN 0
    ELSE IF s[k] = c THEN k
    ELSE find(s, c, k + 1)

\* str.splitlines: the lines of s, without their line ends; a line end at
\* the end of s starts no further line.
RECURSIVE splitlines(_)
splitlines(s) ==
    IF Len(s) = 0 THEN <<>>
    ELSE LET i == find(s, NL, 1)
         IN  IF i = 0 THEN <<s>>
             ELSE <<SubSeq(s, 1, i - 1)>> \o splitlines(SubSeq(s, i + 1, Len(s)))

\* str.split(sep): the pieces of s between all the occurrences of sep.
RECURSIVE split(_, _)
split(s, sep) ==
    LET i == find(s, sep, 1)
    IN  IF i = 0 THEN <<s>>
        ELSE <<SubSeq(s, 1, i - 1)>> \o split(SubSeq(s, i + 1, Len(s)), sep)

startswith(s, c) == Len(s) > 0 /\ s[1] = c

RECURSIVE lstrip(_)
lstrip(s) ==
    IF Len(s) > 0 /\ s[1] \in Whitespace THEN lstrip(Tail(s)) ELSE s

RECURSIVE rstrip(_)
rstrip(s) ==
    IF Len(s) > 0 /\ s[Len(s)] \in Whitespace
    THEN rstrip(SubSeq(s, 1, Len(s) - 1)) ELSE s

\* str.strip
strip(s) == rstrip(lstrip(s))

\* A dict is the sequence of its items in insertion order; d[key] = value
\* replaces the value of a key that is present and adds the item otherwise.
dict_set(d, key, value) ==
    IF \E j \in 1..Len(d) : d[j].key = key
    THEN [j \in 1..Len(d) |->
             IF d[j].key = key THEN [key |-> key, value |-> value] ELSE d[j]]
    ELSE Append(d, [key |-> key, value |-> value])

\* The loop of _parse_reg over the lines from the k-th on (lines 450-454).
RECURSIVE parse_reg_loop(_, _, _)
parse_reg_loop(lines, k, capabilities) ==
    IF k > Len(lines) THEN [status |-> "returned", value |-> capabilities]
    ELSE LET line == lines[k]
         IN  IF Len(line) > 0 /\ ~startswith(line, "#")
             THEN LET parts == split(line, "=")
                  IN  IF Len(parts) < 2
                      THEN [status |-> "raised", error |-> ValueErrorNotEnough]
                      ELSE IF Len(parts) > 2
                      THEN [status |-> "raised", error |-> ValueErrorTooMany]
                      ELSE parse_reg_loop(lines, k + 1,
                               dict_set(capabilities, strip(parts[1]),
                                        strip(parts[2])))
             ELSE parse_reg_loop(lines, k + 1, capabilities)

\* _parse_reg (lines 446-454)
_parse_reg(content) == parse_reg_loop(splitlines(content), 1, <<>>)

RegInit ==
    /\ reg_pc = "idle"
    /\ reg_content = <<>>
    /\ reg_ret = NoOutcome

ParseReg ==
    /\ reg_pc = "idle"
    /\ \E content \in RegistryDocuments :
          /\ reg_content' = content
          /\ reg_ret' = _parse_reg(content)
          /\ reg_pc' = "done"
    /\ UNCHANGED <<dl_vars, q_vars, f_vars>>

parse_reg_done ==
    /\ reg_pc = "done"
    /\ reg_pc' = "idle"
    /\ reg_content' = <<>>
    /\ reg_ret' = NoOutcome
    /\ UNCHANGED <<dl_vars, q_vars, f_vars>>

RegNext ==
    \/ ParseReg
    \/ parse_reg_done

(***************************************************************************)
(* _args_to_payload: the query builder.  A coordinate or a radius is a     *)
(* number of hundredths; the query is a str whose fixed pieces of text are *)
(* single elements and whose formatted arguments are characters.           *)
(***************************************************************************)
MaxCollectionLen == 2

PyNone == [type |-> "NoneType"]

PyStr(s) == [type |-> "str", s |-> s]

\* Truth value of None or of a str.
truth(v) == v.type = "str" /\ Len(v.s) > 0

StrKey(name) == [type |-> "str", name |-> name]

\* The builtin function `format`, which line 467 uses as a dict key.
BuiltinFormat == [type |-> "builtin_function_or_method", name |-> "format"]

KeyError(name) == [type |-> "KeyError", msg |-> name]

InvalidCoordinates == [type |-> "ValueError", msg |-> "coordinates"]

Digit(d) == <<"0", "1", "2", "3", "4", "5", "6", "7", "8", "9">>[d + 1]

RECURSIVE int_digits(_)
int_digits(n) ==
    IF n < 10 THEN <<Digit(n)>> ELSE Append(int_digits(n \div 10), Digit(n % 10))

\* '{}'.format(x) of the float x = h / 100: repr(x), the shortest decimal
\* that reads back as x, with at least one digit after the point.
format_float(h) ==
    LET a == IF h < 0 THEN 0 - h ELSE h
        f == a % 100
        frac == IF f % 10 = 0 THEN <<Digit(f \div 10)>>
                ELSE <<Digit(f \div 10), Digit(f % 10)>>
    IN  (IF h < 0 THEN <<"-">> ELSE <<>>) \o int_digits(a \div 100)
            \o <<".">> \o frac

\* The pieces of the query template (lines 469-473, 476).
SELECT_WHERE ==
    "SELECT * from caom2.Observation o join caom2.Plane p ON o.obsID=p.obsID WHERE INTERSECTS( "

CIRCLE_ICRS == "CIRCLE('ICRS', "

COMMA == ", "

POSITION_BOUNDS == "), position_bounds) = 1 AND "

QUALITY_FLAG == "(quality_flag IS NULL OR quality_flag != 'junk')"

AND_COLLECTION == " AND collection='"

QUOTE == "'"

\* commons.parse_coordinates: the ICRS position of the coordinates, or a
\* failure for coordinates that cannot be resolved.
parse_coordinates(c) ==
    IF c.resolvable
    THEN [status |-> "returned", ra |-> c.ra, dec |-> c.dec]
    ELSE [status |-> "raised", error |-> InvalidCoordinates]

dict_has(d, key) == \E j \in 1..Len(d) : d[j].key = key

dict_get(d, key) == d[CHOOSE j \in 1..Len(d) : d[j].key = key].value

\* The collection test with the missing-key guard (line 475) and the empty
\* string let through.
has_collection_not_none(kwargs) ==
    "collection" \in DOMAIN kwargs /\ kwargs.collection.type = "str"

\* The test of line 475: ['collection' in kwargs] is a one-element list, which
\* is true whatever it holds, so the test is kwargs['collection'] alone.
has_collection(kwargs) == truth(kwargs.collection)

\* The query with the coordinates in the order dec, ra.
circle_query_swapped(ra, dec, radius) ==
    <<SELECT_WHERE, CIRCLE_ICRS>> \o format_float(dec) \o <<COMMA>>
        \o format_float(ra) \o <<COMMA>> \o format_float(radius)
        \o <<POSITION_BOUNDS, QUALITY_FLAG>>

\* The query of lines 468-474.
circle_query(ra, dec, radius) ==
    <<SELECT_WHERE, CIRCLE_ICRS>> \o format_float(ra) \o <<COMMA>>
        \o format_float(dec) \o <<COMMA>> \o format_float(radius)
        \o <<POSITION_BOUNDS, QUALITY_FLAG>>

\* _args_to_payload (lines 463-478); kwargs is the record of the keyword
\* arguments.
_args_to_payload(kwargs) ==
    IF "coordinates" \notin DOMAIN kwargs
    THEN [status |-> "raised", error |-> KeyError("coordinates")]
    ELSE LET coordinates == parse_coordinates(kwargs.coordinates)
         IN  IF coordinates.status = "raised" THEN coordinates
             ELSE IF "radius" \notin DOMAIN kwargs
             THEN [status |-> "raised", error |-> KeyError("radius")]
             ELSE LET radius == kwargs.radius
                      payload0 == <<[key |-> BuiltinFormat, value |-> "VOTable"]>>
                      payload1 == dict_set(payload0, StrKey("query"),
                                      circle_query(coordinates.ra,
                                                   coordinates.dec, radius))
                  IN  IF "collection" \notin DOMAIN kwargs
                      THEN [status |-> "raised", error |-> KeyError("collection")]
                      ELSE IF has_collection(kwargs)
                      THEN [status |-> "returned",
                            value |-> dict_set(payload1, StrKey("query"),
                                dict_get(payload1, StrKey("query"))
                                    \o <<AND_COLLECTION>>
                                    \o kwargs.collection.s \o <<QUOTE>>)]
                      ELSE [status |-> "returned", value |-> payload1]

(***************************************************************************)
(* run_query: the query dispatcher.  The TAP client and the Job class are  *)
(* collaborators: what the client answers is chosen freely, and the Job is *)
(* a record of its attributes.                                             *)
(***************************************************************************)
Phases == {"PENDING", "EXECUTING", "COMPLETED", "ERROR", "ABORTED"}

ResultsTable == "results table"

JobIds == {"job1"}

UnboundLocalError ==
    [type |-> "UnboundLocalError",
     msg |-> "local variable 'job' referenced before assignment"]

QueryNotCompleted == [type |-> "RuntimeError", msg |-> "Query not completed"]

\* What the TAP client does with a launch: it raises, or it returns a job
\* with some identifier, phase and results.
ClientOutcomes ==
    {[raises |-> TRUE]} \cup
    [raises : {FALSE}, jobid : JobIds, _phase : Phases,
     results : {None, ResultsTable}]

\* What the retrieval of an asynchronous job's results does: it raises, or
\* it gets the results.
FetchOutcomes == {[raises |-> TRUE], [raises |-> FALSE, results |-> ResultsTable]}

NoFetch == [raises |-> TRUE]

\* The job object the TAP client returns for a launch.
DelegatedJob(client, query, output_file, output_format) ==
    [jobid |-> client.jobid,
     outputFile |-> output_file,
     responseStatus |-> "200",
     responseMsg |-> "OK",
     remoteLocation |-> None,
     parameters |-> [query |-> query, format |-> output_format],
     _phase |-> client._phase,
     results |-> client.results]

\* JobCadc(async_job, query, connhandler): a new local Job.
JobCadc(async_job, query, connhandler) ==
    [async |-> async_job,
     connHandler |-> connhandler,
     jobid |-> None,
     outputFile |-> None,
     responseStatus |-> "0",
     responseMsg |-> None,
     remoteLocation |-> None,
     parameters |-> [query |-> query, format |-> "votable"],
     _phase |-> None,
     results |-> None]

\* JobCadc.get_results: fetches the results into memory.
JobCadc_get_results(cjob, fetch) == [cjob EXCEPT !.results = fetch.results]

\* JobCadc.save_results: persists the results to the file.
JobCadc_save_results(cjob, output_file, fetch) ==
    [cjob EXCEPT !.outputFile = output_file]

\* JobCadc.set_results
JobCadc_set_results(cjob, results) == [cjob EXCEPT !.results = results]

ConnHandler == "connhandler"

\* The copy of the results made only for a job whose phase is COMPLETED.
copy_results_if_completed(cjob, job) ==
    IF job.results # None /\ job._phase = "COMPLETED"
    THEN JobCadc_set_results(cjob, job.results) ELSE cjob

\* The else branch of lines 384-386.
copy_results(cjob, job) ==
    IF job.results # None THEN JobCadc_set_results(cjob, job.results) ELSE cjob

\* The launch made through launch_job whatever the operation is.
launch_job_call_always_sync(operation, launch) ==
    [method |-> "launch_job", args |-> launch]

\* The call that submits the query to the TAP client (lines 347-369).
launch_job_call(operation, launch) ==
    IF operation = "sync"
    THEN [method |-> "launch_job", args |-> launch]
    ELSE [method |-> "launch_job_async",
          args |-> [background |-> TRUE] @@ launch]

\* The retrieval that fetches into memory whether or not a file was given.
retrieve_call_always_fetch(save_to_file, output_file, verbose) ==
    [method |-> "get_results", args |-> <<>>]

\* The call on the local Job that retrieves the results of an asynchronous
\* job (lines 380-383).
retrieve_call(save_to_file, output_file, verbose) ==
    IF save_to_file
    THEN [method |-> "save_results", args |-> <<output_file, verbose>>]
    ELSE [method |-> "get_results", args |-> <<>>]

NoJob == [jobid |-> None]

\* run_query (lines 343-387): the outcome, the calls made on the TAP client,
\* the job it returned and the calls made on the local Job.  client and fetch
\* are what the collaborators do when called.
run_query(query, operation, output_file, output_format, verbose, upload_resource, upload_table_name, client, fetch) ==
    LET save_to_file == output_file # None
        launch == [query |-> query,
                   name |-> None,
                   output_file |-> output_file,
                   output_format |-> output_format,
                   verbose |-> verbose,
                   dump_to_file |-> save_to_file,
                   upload_resource |-> upload_resource,
                   upload_table_name |-> upload_table_name]
        launch_call == launch_job_call(operation, launch)
        op == operation = "async"
    IN  IF operation \notin {"sync", "async"}
        THEN [ret |-> [status |-> "raised", error |-> UnboundLocalError],
              tap_calls |-> <<>>, tap_job |-> NoJob, job_calls |-> <<>>]
        ELSE IF client.raises
        THEN [ret |-> [status |-> "raised", error |-> HTTPError],
              tap_calls |-> <<launch_call>>, tap_job |-> NoJob,
              job_calls |-> <<>>]
        ELSE
        LET job == DelegatedJob(client, query, output_file, output_format)
            cjob0 == JobCadc(op, job.parameters.query, ConnHandler)
            cjob == [cjob0 EXCEPT
                        !.jobid = job.jobid,
                        !.outputFile = job.outputFile,
                        !.responseStatus = job.responseStatus,
                        !.responseMsg = job.responseMsg,
                        !.remoteLocation = job.remoteLocation,
                        !.parameters.format = job.parameters.format,
                        !._phase = job._phase]
            calls == <<launch_call,
                       [method |-> "_TapPlus__getconnhandler", args |-> <<>>]>>
        IN  IF operation = "async"
            THEN IF save_to_file
                 THEN LET call == retrieve_call(save_to_file, output_file,
                                                verbose)
                      IN  IF fetch.raises
                          THEN [ret |-> [status |-> "raised", error |-> HTTPError],
                                tap_calls |-> calls, tap_job |-> job,
                                job_calls |-> <<call>>]
                          ELSE [ret |-> [status |-> "returned", kind |-> "job",
                                         value |-> JobCadc_save_results(
                                                       cjob, output_file, fetch)],
                                tap_calls |-> calls, tap_job |-> job,
                                job_calls |-> <<call>>]
                 ELSE LET call == retrieve_call(save_to_file, output_file,
                                                verbose)
                      IN  IF fetch.raises
                          THEN [ret |-> [status |-> "raised", error |-> HTTPError],
                                tap_calls |-> calls, tap_job |-> job,
                                job_calls |-> <<call>>]
                          ELSE [ret |-> [status |-> "returned", kind |-> "job",
                                         value |-> JobCadc_get_results(cjob, fetch)],
                                tap_calls |-> calls, tap_job |-> job,
                                job_calls |-> <<call>>]
            ELSE [ret |-> [status |-> "returned", kind |-> "job",
                           value |-> copy_results(cjob, job)],
                  tap_calls |-> calls, tap_job |-> job, job_calls |-> <<>>]

\* _parse_result that hands over whatever results the Job carries.
_parse_result_any_phase(job) ==
    IF job.results = None
    THEN [status |-> "raised", error |-> QueryNotCompleted]
    ELSE [status |-> "returned", value |-> job.results]

\* _parse_result (lines 456-461)
_parse_result(job) ==
    IF job._phase # "COMPLETED"
    THEN [status |-> "raised", error |-> QueryNotCompleted]
    ELSE [status |-> "returned", value |-> job.results]

(***************************************************************************)
(* The query methods of the facade.                                        *)
(***************************************************************************)
Coordinates ==
    [resolvable : {TRUE}, ra : {1068, 1000}, dec : {4127, -530}]
        \cup {[resolvable |-> FALSE, ra |-> 0, dec |-> 0]}

Radii == {50, 5}

CollectionChars == {"C", "'"}

Collections ==
    {PyNone} \cup {PyStr(c) : c \in SeqsUpTo(CollectionChars, MaxCollectionLen)}

Names == {<<"M", "3">>, <<"m", "3">>}

Queries == {<<"select count(*) from caom2.Observation">>}

Operations == {"sync", "async", "batch"}

NAME_QUERY ==
    "select * from caom2.Observation o join caom2.Plane p on o.obsID=p.obsID where lower(target_name) like '%"

\* str.lower
lower(s) == [k \in 1..Len(s) |-> IF s[k] = "M" THEN "m" ELSE s[k]]

NoCall == [method |-> "none"]

QInit ==
    /\ q_pc = "idle"
    /\ q_call = NoCall
    /\ q_ret = NoOutcome
    /\ tap_calls = <<>>
    /\ tap_job = NoJob
    /\ job_calls = <<>>
    /\ parsed = NoOutcome

\* A method that ends with run_query(query, operation='sync') (lines 176,
\* 196-199, 305).
run_query_sync(query, client) ==
    LET r == run_query(query, "sync", None, "votable", FALSE, None, None,
                       client, NoFetch)
    IN  /\ q_ret' = r.ret
        /\ tap_calls' = r.tap_calls
        /\ tap_job' = r.tap_job
        /\ job_calls' = r.job_calls

\* query_region_async (lines 169-177)
query_region_async(coordinates, radius, collection, get_query_payload, client) ==
    LET request_payload ==
            _args_to_payload([coordinates |-> coordinates, radius |-> radius,
                              collection |-> collection])
    IN  /\ q_call' = [method |-> "query_region_async",
                      coordinates |-> coordinates, radius |-> radius,
                      collection |-> collection,
                      get_query_payload |-> get_query_payload]
        /\ q_pc' = "done"
        /\ parsed' = NoOutcome
        /\ IF request_payload.status = "raised"
           THEN /\ q_ret' = request_payload
                /\ tap_calls' = <<>>
                /\ tap_job' = NoJob
                /\ job_calls' = <<>>
           ELSE IF get_query_payload
           THEN /\ q_ret' = [status |-> "returned", kind |-> "payload",
                             value |-> request_payload.value]
                /\ tap_calls' = <<>>
                /\ tap_job' = NoJob
                /\ job_calls' = <<>>
           ELSE IF ~dict_has(request_payload.value, StrKey("query"))
           THEN /\ q_ret' = [status |-> "raised", error |-> KeyError("query")]
                /\ tap_calls' = <<>>
                /\ tap_job' = NoJob
                /\ job_calls' = <<>>
           ELSE run_query_sync(dict_get(request_payload.value, StrKey("query")),
                               client)

\* query_name_async (lines 196-200)
query_name_async(name, client) ==
    /\ q_call' = [method |-> "query_name_async", name |-> name]
    /\ q_pc' = "done"
    /\ parsed' = NoOutcome
    /\ run_query_sync(<<NAME_QUERY>> \o lower(name) \o <<"%'">>, client)

\* query_async (line 305)
query_async(query, client) ==
    /\ q_call' = [method |-> "query_async", query |-> query]
    /\ q_pc' = "done"
    /\ parsed' = NoOutcome
    /\ run_query_sync(query, client)

QueryRegionAsync ==
    /\ q_pc = "idle"
    /\ \E coordinates \in Coordinates, radius \in Radii,
          collection \in Collections, get_query_payload \in BOOLEAN,
          client \in ClientOutcomes :
          query_region_async(coordinates, radius, collection,
                             get_query_payload, client)
    /\ UNCHANGED <<dl_vars, reg_vars, f_vars>>

QueryNameAsync ==
    /\ q_pc = "idle"
    /\ \E name \in Names, client \in ClientOutcomes :
          query_name_async(name, client)
    /\ UNCHANGED <<dl_vars, reg_vars, f_vars>>

QueryAsync ==
    /\ q_pc = "idle"
    /\ \E query \in Queries, client \in ClientOutcomes :
          query_async(query, client)
    /\ UNCHANGED <<dl_vars, reg_vars, f_vars>>

\* A call of run_query by the user.
RunQuery ==
    /\ q_pc = "idle"
    /\ \E query \in Queries, operation \in Operations,
          output_file \in {None, "out.xml"},
          output_format \in {"votable", "csv"}, verbose \in BOOLEAN,
          upload \in {[resource |-> None, table_name |-> None],
                      [resource |-> "upload.xml", table_name |-> "t1"]},
          client \in ClientOutcomes, fetch \in FetchOutcomes :
          LET r == run_query(query, operation, output_file, output_format,
                             verbose, upload.resource, upload.table_name,
                             client, fetch)
          IN  /\ q_call' = [method |-> "run_query", query |-> query,
                            operation |-> operation,
                            output_file |-> output_file,
                            output_format |-> output_format,
                            verbose |-> verbose,
                            upload_resource |-> upload.resource,
                            upload_table_name |-> upload.table_name]
              /\ q_pc' = "done"
              /\ parsed' = NoOutcome
              /\ q_ret' = r.ret
              /\ tap_calls' = r.tap_calls
              /\ tap_job' = r.tap_job
              /\ job_calls' = r.job_calls
    /\ UNCHANGED <<dl_vars, reg_vars, f_vars>>

\* Result extraction: _parse_result on the Job a query method returned.
ParseResult ==
    /\ q_pc = "done"
    /\ q_ret.status = "returned"
    /\ q_ret.kind = "job"
    /\ parsed' = _parse_result(q_ret.value)
    /\ q_pc' = "parsed"
    /\ UNCHANGED <<q_call, q_ret, tap_calls, tap_job, job_calls>>
    /\ UNCHANGED <<dl_vars, reg_vars, f_vars>>

\* The caller has the outcome; the next call starts afresh.
query_done ==
    /\ q_pc \in {"done", "parsed"}
    /\ q_pc' = "idle"
    /\ q_call' = NoCall
    /\ q_ret' = NoOutcome
    /\ tap_calls' = <<>>
    /\ tap_job' = NoJob
    /\ job_calls' = <<>>
    /\ parsed' = NoOutcome
    /\ UNCHANGED <<dl_vars, reg_vars, f_vars>>

QNext ==
    \/ QueryRegionAsync
    \/ QueryNameAsync
    \/ QueryAsync
    \/ RunQuery
    \/ ParseResult
    \/ query_done

(***************************************************************************)
(* The constructor and the methods that delegate to the TAP client.  An    *)
(* argument of a call is given, [given |-> TRUE, v |-> value], or left to  *)
(* its default, [given |-> FALSE].                                         *)
(***************************************************************************)
MaxJobs == 2

DEFAULT_URL == "http://www.cadc-ccda.hia-iha.nrc-cnrc.gc.ca/tap"

NoClient == [kind |-> "none"]

\* TapPlusCadc(url=url, verbose=verbose): a client the constructor creates.
TapPlusCadc(url, verbose) ==
    [kind |-> "TapPlusCadc", url |-> url, verbose |-> verbose]

\* A client the caller made and passes as tap_plus_handler.
TapPlusHandlers == {[kind |-> "injected", name |-> "handler"]}

NoHandler == [kind |-> "none"]

BothUrlAndHandlerError ==
    [type |-> "AttributeError", msg |-> "Can not input both url and tap handler"]

ConnectionError == [type |-> "requests.exceptions.ConnectionError", msg |-> ""]

Omitted == [given |-> FALSE]

Given(v) == [given |-> TRUE, v |-> v]

OptionalBool == {Omitted} \cup {Given(b) : b \in BOOLEAN}

\* The value of a parameter that has a default.
arg(a, default) == IF a.given THEN a.v ELSE default

\* What the network gives the constructor: the registry document and the
\* capabilities document are usable, the registry request fails with an HTTP
\* status, or the capabilities document lacks the entry line 100 indexes.
RegistryOutcomes == {"ok", "http error", "no capability"}

IndexError == [type |-> "IndexError", msg |-> "list index out of range"]

\* __init__ (lines 88-114): the failure, or the client the new object holds.
__init__(url, tap_plus_handler, verbose, registry) ==
    IF registry = "http error"
    THEN [status |-> "raised", error |-> HTTPError]
    ELSE IF registry = "no capability"
    THEN [status |-> "raised", error |-> IndexError]
    ELSE IF url # None /\ tap_plus_handler # NoHandler
    THEN [status |-> "raised", error |-> BothUrlAndHandlerError]
    ELSE IF tap_plus_handler = NoHandler
    THEN IF url = None
         THEN [status |-> "returned",
               cadctap |-> TapPlusCadc(DEFAULT_URL, verbose)]
         ELSE [status |-> "returned", cadctap |-> TapPlusCadc(url, verbose)]
    ELSE [status |-> "returned", cadctap |-> tap_plus_handler]

\* What a TAP client does when one of its operations is called: it raises,
\* or it returns a value.
Answers ==
    {[raises |-> TRUE, error |-> HTTPError]} \cup
    {[raises |-> FALSE, value |-> v] : v \in {"value 1", "value 2"}}

\* `return self.__cadctap.<method>(...)`: the one call, and the client's
\* value or error handed on to the caller.
delegate(call, answer) ==
    [calls |-> <<call>>,
     ret |-> IF answer.raises
             THEN [status |-> "raised", error |-> answer.error]
             ELSE [status |-> "returned", kind |-> "value",
                   value |-> answer.value]]

\* get_tables with its two arguments passed on in the other order.
get_tables_swapped(client, only_names, verbose, answer) ==
    delegate([on |-> client, method |-> "load_tables",
              args |-> <<verbose, only_names>>, kwargs |-> <<>>], answer)

\* get_tables (line 271)
get_tables(client, only_names, verbose, answer) ==
    delegate([on |-> client, method |-> "load_tables",
              args |-> <<only_names, verbose>>, kwargs |-> <<>>], answer)

\* get_table (lines 288-289)
get_table(client, table, verbose, answer) ==
    delegate([on |-> client, method |-> "load_table",
              args |-> <<table, verbose>>, kwargs |-> <<>>], answer)

\* load_async_job (line 404)
load_async_job(client, jobid, verbose, answer) ==
    delegate([on |-> client, method |-> "load_async_job",
              args |-> <<jobid>>, kwargs |-> [verbose |-> verbose]], answer)

\* save_results (line 443)
save_results(client, job, filename, verbose, answer) ==
    delegate([on |-> client, method |-> "save_results",
              args |-> <<job, filename, verbose>>, kwargs |-> <<>>], answer)

\* logout (line 143)
logout(client, verbose, answer) ==
    delegate([on |-> client, method |-> "logout",
              args |-> <<verbose>>, kwargs |-> <<>>], answer)

\* The jobs a TAP client can list: each has a job id and the connection
\* handler it was made with.
ListedJobIds == {"job1", "job2"}

TapJobs == [jobid : ListedJobIds, connHandler : {ConnHandler}]

\* What the client's list_async_jobs does: it raises, it returns None, or it
\* returns a list of jobs.
ListAnswers ==
    {[raises |-> TRUE, error |-> e] : e \in {HTTPError, ConnectionError}} \cup
    {[raises |-> FALSE, none |-> TRUE, jobs |-> <<>>]} \cup
    {[raises |-> FALSE, none |-> FALSE, jobs |-> j] : j \in SeqsUpTo(TapJobs, MaxJobs)}

\* The loop of lines 423-427 with the wrappers in the opposite order.
wrap_jobs_reversed(joblist) ==
    [i \in 1..Len(joblist) |->
        [JobCadc(TRUE, None, joblist[Len(joblist) + 1 - i].connHandler)
            EXCEPT !.jobid = joblist[Len(joblist) + 1 - i].jobid]]

\* The loop of lines 423-427: one JobCadc per job of the client, with the
\* job's connection handler and its job id.
wrap_jobs(joblist) ==
    [i \in 1..Len(joblist) |->
        [JobCadc(TRUE, None, joblist[i].connHandler)
            EXCEPT !.jobid = joblist[i].jobid]]

\* list_async_jobs (lines 419-430)
list_async_jobs(client, verbose, answer) ==
    [calls |-> <<[on |-> client, method |-> "list_async_jobs",
                  args |-> <<verbose>>, kwargs |-> <<>>]>>,
     ret |-> IF answer.raises
             THEN IF answer.error = HTTPError
                  THEN [status |-> "returned", kind |-> "None"]
                  ELSE [status |-> "raised", error |-> answer.error]
             ELSE IF answer.none
             THEN [status |-> "returned", kind |-> "list", value |-> <<>>]
             ELSE [status |-> "returned", kind |-> "list",
                   value |-> wrap_jobs(answer.jobs)]]

(***************************************************************************)
(* The calls of the constructor and of the delegating methods.             *)
(***************************************************************************)
Urls == {None, "http://tap.example/tap"}

TableNames == {"caom2.Observation", "caom2.Plane"}

FileNames == {"results.xml", "other.xml"}

NoAnswer == [raises |-> FALSE, value |-> None]

NoReturn == [status |-> "none"]

FInit ==
    /\ f_pc = "new"
    /\ cadctap = NoClient
    /\ f_call = NoCall
    /\ f_answer = NoAnswer
    /\ f_ret = NoReturn
    /\ f_calls = <<>>

\* CadcClass(url, tap_plus_handler, verbose)
Construct ==
    /\ f_pc = "new"
    /\ \E url \in Urls, tap_plus_handler \in TapPlusHandlers \cup {NoHandler},
          verbose \in OptionalBool, registry \in RegistryOutcomes :
         LET r == __init__(url, tap_plus_handler, arg(verbose, FALSE), registry) IN
         /\ f_call' = [method |-> "__init__",
                       args |-> <<url, tap_plus_handler, verbose>>]
         /\ f_pc' = IF r.status = "returned" THEN "done" ELSE "failed"
         /\ cadctap' = IF r.status = "returned" THEN r.cadctap ELSE NoClient
         /\ f_ret' = IF r.status = "returned"
                     THEN [status |-> "returned", kind |-> "None"]
                     ELSE r
    /\ UNCHANGED <<f_answer, f_calls>>
    /\ UNCHANGED <<dl_vars, reg_vars, q_vars>>

\* The effect of a delegating method: r is what its operator computed.
facade_return(call, answer, r) ==
    /\ f_call' = call
    /\ f_answer' = answer
    /\ f_ret' = r.ret
    /\ f_calls' = r.calls
    /\ f_pc' = "done"
    /\ UNCHANGED cadctap
    /\ UNCHANGED <<dl_vars, reg_vars, q_vars>>

GetTables ==
    /\ f_pc = "idle"
    /\ \E only_names \in OptionalBool, verbose \in OptionalBool, answer \in Answers :
         facade_return([method |-> "get_tables", args |-> <<only_names, verbose>>],
                       answer,
                       get_tables(cadctap, arg(only_names, FALSE),
                                  arg(verbose, FALSE), answer))

GetTable ==
    /\ f_pc = "idle"
    /\ \E table \in TableNames, verbose \in OptionalBool, answer \in Answers :
         facade_return([method |-> "get_table", args |-> <<table, verbose>>],
                       answer,
                       get_table(cadctap, table, arg(verbose, FALSE), answer))

LoadAsyncJob ==
    /\ f_pc = "idle"
    /\ \E jobid \in ListedJobIds, verbose \in OptionalBool, answer \in Answers :
         facade_return([method |-> "load_async_job", args |-> <<jobid, verbose>>],
                       answer,
                       load_async_job(cadctap, jobid, arg(verbose, FALSE), answer))

ListAsyncJobs ==
    /\ f_pc = "idle"
    /\ \E verbose \in OptionalBool, answer \in ListAnswers :
         facade_return([method |-> "list_async_jobs", args |-> <<verbose>>],
                       answer,
                       list_async_jobs(cadctap, arg(verbose, FALSE), answer))

SaveResults ==
    /\ f_pc = "idle"
    /\ \E job \in TapJobs, filename \in FileNames, verbose \in OptionalBool,
          answer \in Answers :
         facade_return([method |-> "save_results",
                        args |-> <<job, filename, verbose>>],
                       answer,
                       save_results(cadctap, job, filename,
                                    arg(verbose, FALSE), answer))

Logout ==
    /\ f_pc = "idle"
    /\ \E verbose \in OptionalBool, answer \in Answers :
         facade_return([method |-> "logout", args |-> <<verbose>>],
                       answer,
                       logout(cadctap, arg(verbose, FALSE), answer))

\* The caller has looked at the outcome; the object keeps its client.  After
\* a failed construction there is no object.
facade_done ==
    /\ f_pc \in {"done", "failed"}
    /\ f_pc' = IF f_pc = "done" THEN "idle" ELSE "new"
    /\ f_call' = NoCall
    /\ f_answer' = NoAnswer
    /\ f_ret' = NoReturn
    /\ f_calls' = <<>>
    /\ UNCHANGED cadctap
    /\ UNCHANGED <<dl_vars, reg_vars, q_vars>>

FNext ==
    \/ Construct
    \/ GetTables
    \/ GetTable
    \/ LoadAsyncJob
    \/ ListAsyncJobs
    \/ SaveResults
    \/ Logout
    \/ facade_done

(***************************************************************************)
(* The specifications: one per component, the others left as constructed.  *)
(***************************************************************************)
Init == DLInit /\ RegInit /\ QInit /\ FInit

SpecDataLink == Init /\ [][DLNext]_vars

SpecRegistry == Init /\ [][RegNext]_vars

SpecQuery == Init /\ [][QNext]_vars

SpecFacade == Init /\ [][FNext]_vars

(***************************************************************************)
(* Properties of get_data_urls.                                            *)
(***************************************************************************)
\* The names the specification gives to the failures of get_data_urls.
EmptyInputError == MissingMetadataError
MissingColumnError == MissingPublisherIDError
DataLinkTransportError == HTTPError

\* The rows of the DataLink response to the i-th publisher id of the table.
ResponseRows(i) == datalink[query_result.rows[i]].content

\* The rows get_data_urls is to select.
Wanted(row) ==
    \/ row.semantics = "#this"
    \/ include_auxilaries /\ row.semantics # "#this" /\ row.access_url # <<>>

WantedPositions == 
    {<<i, k>> \in (1..Len(query_result.rows)) \X (1..MaxRows + 1) :
        k <= Len(ResponseRows(i)) /\ Wanted(ResponseRows(i)[k])}

RECURSIVE WantedUrlsFrom(_)
WantedUrlsFrom(i) ==
    IF i > Len(query_result.rows) THEN <<>>
    ELSE LET sel == SelectSeq(ResponseRows(i), Wanted)
         IN  [k \in 1..Len(sel) |-> sel[k].access_url] \o WantedUrlsFrom(i + 1)

\* C1: the list get_data_urls returns holds one entry per row that is '#this'
\* or, with include_auxilaries, that is not '#this' and has a non-empty
\* access_url; the entries are those rows' access_url and nothing else.
C1_ReturnsSelectedRows ==
    gdu_pc = "returned" =>
        /\ Len(gdu_ret.value) = Cardinality(WantedPositions)
        /\ {gdu_ret.value[j] : j \in 1..Len(gdu_ret.value)} =
           {ResponseRows(p[1])[p[2]].access_url : p \in WantedPositions}

C1_Witness ==
    /\ gdu_pc = "returned"
    /\ include_auxilaries
    /\ \E p \in WantedPositions : ResponseRows(p[1])[p[2]].semantics = "#this"
    /\ \E p \in WantedPositions : ResponseRows(p[1])[p[2]].semantics # "#this"
    /\ \E i \in 1..Len(query_result.rows) : \E k \in 1..Len(ResponseRows(i)) :
          /\ ResponseRows(i)[k].semantics # "#this"
          /\ ResponseRows(i)[k].access_url = <<>>

\* C2: the GETs issued so far are those for the first publisher ids of the
\* table, one each, in row order, repeated ids included; a returned list is
\* the concatenation, in that order, of each response's selected URLs in
\* response order.
C2_OneGetPerIdInOrder ==
    /\ Len(requests) <= Len(query_result.rows)
    /\ \A i \in 1..Len(requests) :
          requests[i] = [url |-> DATALINK_URL,
                         params |-> [ID |-> query_result.rows[i]]]
    /\ gdu_pc = "returned" =>
          /\ Len(requests) = Len(query_result.rows)
          /\ gdu_ret.value = WantedUrlsFrom(1)

C2_Witness ==
    /\ gdu_pc = "returned"
    /\ Len(query_result.rows) >= 2
    /\ query_result.rows[1] = query_result.rows[2]
    /\ Len(SelectSeq(ResponseRows(1), Wanted)) >= 2
    /\ Len(requests) = Len(query_result.rows)

\* An HTTP error status: a client (4xx) or server (5xx) error.
IsErrorStatus(code) == code \in 400..599

\* C3: once a GET has answered with an HTTP error status the call has failed
\* with the HTTP error, it gives no list, and that GET is the last one issued.
C3_HttpErrorFailsWholeCall ==
    \A i \in 1..Len(requests) :
        IsErrorStatus(datalink[query_result.rows[i]].status_code) =>
            /\ gdu_pc = "raised"
            /\ gdu_ret.status = "raised"
            /\ gdu_ret.error = DataLinkTransportError
            /\ "value" \notin DOMAIN gdu_ret
            /\ Len(requests) = i

C3_Witness ==
    /\ gdu_pc = "raised"
    /\ gdu_ret.error = DataLinkTransportError
    /\ Len(result) > 0
    /\ Len(requests) = 2
    /\ Len(query_result.rows) = 3

\* C4 as stated: a table without the caomPublisherID column always fails with
\* MissingColumnError, an empty table always with EmptyInputError, and no GET
\* is issued in either case.
C4_AsStated ==
    gdu_pc # "idle" =>
        /\ ~query_result.hasPublisherID =>
              /\ gdu_pc = "raised"
              /\ gdu_ret.error = MissingColumnError
              /\ requests = <<>>
        /\ Len(query_result.rows) = 0 =>
              /\ gdu_pc = "raised"
              /\ gdu_ret.error = EmptyInputError
              /\ requests = <<>>

\* C4 (amended): an empty table always fails with EmptyInputError, whether or
\* not it has the column; a non-empty table without the caomPublisherID
\* column always fails with MissingColumnError; no GET is issued in either
\* case.
C4_EmptyThenMissingColumn ==
    gdu_pc # "idle" =>
        /\ Len(query_result.rows) = 0 =>
              /\ gdu_pc = "raised"
              /\ gdu_ret.error = EmptyInputError
              /\ requests = <<>>
        /\ (Len(query_result.rows) > 0 /\ ~query_result.hasPublisherID) =>
              /\ gdu_pc = "raised"
              /\ gdu_ret.error = MissingColumnError
              /\ requests = <<>>

C4_Witness ==
    /\ gdu_pc = "raised"
    /\ ~query_result.hasPublisherID
    /\ Len(query_result.rows) > 0
    /\ gdu_ret.error = MissingColumnError

(***************************************************************************)
(* Properties of _parse_reg.                                               *)
(***************************************************************************)
\* The name the specification gives to the failure of the registry parser.
IsMalformedRegistryError(e) == e.type = "ValueError"

\* The lines of the document that are neither empty nor '#'-prefixed.
IsEntryLine(line) == Len(line) > 0 /\ line[1] # "#"

EntryLines == SelectSeq(splitlines(reg_content), IsEntryLine)

HasEquals(line) == \E k \in 1..Len(line) : line[k] = "="

\* The first '=' of a line that has one.
FirstEquals(line) ==
    CHOOSE k \in 1..Len(line) :
        line[k] = "=" /\ \A j \in 1..(k - 1) : line[j] # "="

\* The key and the value of a line under the rule 'split on the first ='.
KeyOf(line) == strip(SubSeq(line, 1, FirstEquals(line) - 1))

ValueOf(line) == strip(SubSeq(line, FirstEquals(line) + 1, Len(line)))

\* A well-formed registry document: every entry line has an '=' and no two
\* entry lines have the same key.
WellFormedRegistry ==
    /\ \A j \in 1..Len(EntryLines) : HasEquals(EntryLines[j])
    /\ \A j, k \in 1..Len(EntryLines) :
          j # k => KeyOf(EntryLines[j]) # KeyOf(EntryLines[k])

\* C5 as stated: parsing a well-formed registry document yields a mapping
\* with exactly one entry per entry line, the trimmed key bound to the
\* trimmed value, and with no other entry.
C5_AsStated ==
    (reg_pc = "done" /\ WellFormedRegistry) =>
        /\ reg_ret.status = "returned"
        /\ Len(reg_ret.value) = Len(EntryLines)
        /\ \A j \in 1..Len(EntryLines) :
              \E e \in 1..Len(reg_ret.value) :
                  /\ reg_ret.value[e].key = KeyOf(EntryLines[j])
                  /\ reg_ret.value[e].value = ValueOf(EntryLines[j])

\* C6 as stated: an entry line without '=' makes parsing fail with
\* MalformedRegistryError and yield no mapping; otherwise every entry line is
\* split on its first '=' only, the later '=' staying in the value, and the
\* mapping binds each key to the value of the last line that has the key.
C6_AsStated ==
    reg_pc = "done" =>
        IF \E j \in 1..Len(EntryLines) : ~HasEquals(EntryLines[j])
        THEN /\ reg_ret.status = "raised"
             /\ IsMalformedRegistryError(reg_ret.error)
             /\ "value" \notin DOMAIN reg_ret
        ELSE /\ reg_ret.status = "returned"
             /\ \A j \in 1..Len(EntryLines) :
                   \E e \in 1..Len(reg_ret.value) :
                       /\ reg_ret.value[e].key = KeyOf(EntryLines[j])
                       /\ \E k \in j..Len(EntryLines) :
                             /\ KeyOf(EntryLines[k]) = KeyOf(EntryLines[j])
                             /\ \A l \in (k + 1)..Len(EntryLines) :
                                   KeyOf(EntryLines[l]) # KeyOf(EntryLines[j])
                             /\ reg_ret.value[e].value = ValueOf(EntryLines[k])

(***************************************************************************)
(* Properties of the query builder.                                        *)
(***************************************************************************)
\* The decimal text of the coordinates and radii of the model.
Shown(h) ==
    CASE h = 1068 -> <<"1", "0", ".", "6", "8">>
      [] h = 1000 -> <<"1", "0", ".", "0">>
      [] h = 4127 -> <<"4", "1", ".", "2", "7">>
      [] h = -530 -> <<"-", "5", ".", "3">>
      [] h = 50 -> <<"0", ".", "5">>
      [] h = 5 -> <<"0", ".", "0", "5">>

\* A call of query_region_async that built a query.
BuiltAQuery ==
    /\ q_pc # "idle"
    /\ q_call.method = "query_region_async"
    /\ q_call.coordinates.resolvable

\* The query it built: in the payload it returned, or as submitted.
BuiltQuery ==
    IF q_call.get_query_payload
    THEN dict_get(q_ret.value, StrKey("query"))
    ELSE tap_calls[1].args.query

EndsWith(q, tail) ==
    /\ Len(q) >= Len(tail)
    /\ SubSeq(q, Len(q) - Len(tail) + 1, Len(q)) = tail

Contains(q, part) ==
    \E k \in 1..Len(q) :
        /\ k + Len(part) - 1 <= Len(q)
        /\ SubSeq(q, k, k + Len(part) - 1) = part

CircleAndQualityClause ==
    <<CIRCLE_ICRS>> \o Shown(q_call.coordinates.ra) \o <<COMMA>>
        \o Shown(q_call.coordinates.dec) \o <<COMMA>>
        \o Shown(q_call.radius) \o <<POSITION_BOUNDS, QUALITY_FLAG>>

CollectionGiven ==
    q_call.collection.type = "str" /\ q_call.collection.s # <<>>

\* C7: the built query contains CIRCLE('ICRS', ra, dec, radius) with the
\* three values of the call, followed by the quality-flag clause; it has a
\* collection clause exactly when the collection is a non-empty string, and
\* then it ends with AND collection='<collection>', the collection's
\* characters unchanged, right after the quality-flag clause; otherwise it
\* ends with the quality-flag clause.
C7_CircleAndCollectionClause ==
    BuiltAQuery =>
        /\ Contains(BuiltQuery, CircleAndQualityClause)
        /\ Contains(BuiltQuery, <<AND_COLLECTION>>) <=> CollectionGiven
        /\ IF CollectionGiven
           THEN EndsWith(BuiltQuery,
                         <<QUALITY_FLAG, AND_COLLECTION>>
                             \o q_call.collection.s \o <<QUOTE>>)
           ELSE EndsWith(BuiltQuery, <<QUALITY_FLAG>>)

C7_Witness ==
    /\ BuiltAQuery
    /\ q_call.get_query_payload
    /\ q_call.collection = PyStr(<<"C", "'">>)
    /\ q_call.coordinates.dec < 0
    /\ EndsWith(BuiltQuery, <<AND_COLLECTION, "C", "'", QUOTE>>)

\* C8 as stated: a payload that query_region_async returns has the string
\* key 'query' bound to the query and the string key 'format' bound to the
\* output format, and nothing was submitted to the TAP client.
C8_AsStated ==
    (BuiltAQuery /\ q_call.get_query_payload) =>
        /\ q_ret.status = "returned"
        /\ dict_has(q_ret.value, StrKey("query"))
        /\ dict_has(q_ret.value, StrKey("format"))
        /\ tap_calls = <<>>

(***************************************************************************)
(* Properties of the query dispatcher and of result extraction.            *)
(***************************************************************************)
QueryNotCompletedError == QueryNotCompleted

ReturnedAJob == q_pc # "idle" /\ q_ret.status = "returned" /\ q_ret.kind = "job"

\* C9 as stated: the Job run_query returns has results exactly when its
\* phase is COMPLETED.
C9_AsStated ==
    (ReturnedAJob /\ q_call.method = "run_query") =>
        (q_ret.value.results # None <=> q_ret.value._phase = "COMPLETED")

\* C9 (amended): the Job run_query returns in 'sync' mode has the phase the
\* TAP client reported and has results exactly when the client's job has
\* them, and then the same ones.
C9_SyncJobMirrorsClientJob ==
    (ReturnedAJob /\ q_call.method = "run_query" /\ q_call.operation = "sync") =>
        /\ q_ret.value._phase = tap_job._phase
        /\ q_ret.value.results # None <=> tap_job.results # None
        /\ q_ret.value.results = tap_job.results

C9_Witness ==
    /\ ReturnedAJob
    /\ q_call.method = "run_query"
    /\ q_call.operation = "sync"
    /\ q_ret.value._phase = "ERROR"
    /\ q_ret.value.results # None

\* C10: _parse_result returns the Job's results when the phase of the Job is
\* COMPLETED, and for any other phase fails with QueryNotCompletedError and
\* returns nothing, whatever results the Job carries.
C10_ResultsOnlyWhenCompleted ==
    q_pc = "parsed" =>
        IF q_ret.value._phase = "COMPLETED"
        THEN /\ parsed.status = "returned"
             /\ parsed.value = q_ret.value.results
        ELSE /\ parsed.status = "raised"
             /\ parsed.error = QueryNotCompletedError
             /\ "value" \notin DOMAIN parsed

C10_Witness ==
    /\ q_pc = "parsed"
    /\ q_call.method = "query_region_async"
    /\ q_ret.value._phase = "EXECUTING"
    /\ q_ret.value.results # None
    /\ parsed.status = "raised"

\* A call of run_query in one of its two modes.
RanQuery ==
    /\ q_pc # "idle"
    /\ q_call.method = "run_query"
    /\ q_call.operation \in {"sync", "async"}

IsLaunch(call) == call.method \in {"launch_job", "launch_job_async"}

Launches == SelectSeq(tap_calls, IsLaunch)

\* The TAP client raised at the launch: it returned no job.
ClientRaised == tap_job = NoJob

\* C11: a run_query call launches the query on the TAP client exactly once,
\* with launch_job for 'sync' and launch_job_async for 'async'; the launch
\* carries the caller's query, output_file, output_format, verbose,
\* upload_resource and upload_table_name, and dump_to_file is true exactly
\* when an output_file was given; when the client raises, the error reaches
\* the caller, no Job is returned and there is no second launch.
C11_OneLaunchArgumentsUnchanged ==
    RanQuery =>
        /\ Len(Launches) = 1
        /\ Launches[1].method =
              (IF q_call.operation = "sync" THEN "launch_job"
               ELSE "launch_job_async")
        /\ LET args == Launches[1].args
           IN  /\ args.query = q_call.query
               /\ args.output_file = q_call.output_file
               /\ args.output_format = q_call.output_format
               /\ args.verbose = q_call.verbose
               /\ args.upload_resource = q_call.upload_resource
               /\ args.upload_table_name = q_call.upload_table_name
               /\ args.dump_to_file <=> q_call.output_file # None
        /\ ClientRaised =>
              /\ q_ret.status = "raised"
              /\ q_ret.error = HTTPError
              /\ "value" \notin DOMAIN q_ret
              /\ Len(tap_calls) = 1

C11_Witness ==
    /\ RanQuery
    /\ q_call.operation = "async"
    /\ q_call.output_file # None
    /\ q_call.verbose
    /\ ClientRaised
    /\ Launches[1].args.dump_to_file

\* C12: once the launch has returned a job, an 'async' run_query makes exactly
\* one retrieval on the local Job, save_results to output_file when one was
\* given and get_results otherwise; a 'sync' run_query makes none, and the
\* Job it returns has the client job's results when these are present and no
\* results otherwise.
C12_RetrievalByMode ==
    (RanQuery /\ ~ClientRaised) =>
        IF q_call.operation = "async"
        THEN /\ Len(job_calls) = 1
             /\ IF q_call.output_file # None
                THEN job_calls[1] =
                         [method |-> "save_results",
                          args |-> <<q_call.output_file, q_call.verbose>>]
                ELSE job_calls[1] = [method |-> "get_results", args |-> <<>>]
        ELSE /\ job_calls = <<>>
             /\ q_ret.status = "returned"
             /\ IF tap_job.results # None
                THEN q_ret.value.results = tap_job.results
                ELSE q_ret.value.results = None

C12_Witness ==
    /\ RanQuery
    /\ ~ClientRaised
    /\ q_call.operation = "async"
    /\ q_call.output_file # None
    /\ q_ret.status = "returned"
    /\ Len(job_calls) = 1
    /\ job_calls[1].method = "save_results"

(***************************************************************************)
(* The job listing and the delegating methods.                             *)
(***************************************************************************)
\* The value the method named in f_call took for a parameter left out.
Passed(a) == arg(a, FALSE)

ListedJobs == f_pc = "done" /\ f_call.method = "list_async_jobs"

\* The one call a method made on the client the object holds.
OnlyCall(method, args, kwargs) ==
    f_calls = <<[on |-> cadctap, method |-> method,
                 args |-> args, kwargs |-> kwargs]>>

\* C13: list_async_jobs calls the client's job listing exactly once.  When
\* that call raises an HTTP error the error is not propagated and the result
\* is None; when it returns, the result is a list with one local job per job
\* of the client, in the same order and with the same job id, and the empty
\* list when the client returns no jobs.
C13_ListsOneWrapperPerJob ==
    ListedJobs =>
        /\ OnlyCall("list_async_jobs", <<Passed(f_call.args[1])>>, <<>>)
        /\ (f_answer.raises /\ f_answer.error = HTTPError) =>
               /\ f_ret.status = "returned"
               /\ f_ret.kind = "None"
        /\ ~f_answer.raises =>
               /\ f_ret.status = "returned"
               /\ f_ret.kind = "list"
               /\ Len(f_ret.value) = Len(f_answer.jobs)
               /\ \A i \in 1..Len(f_answer.jobs) :
                      /\ f_ret.value[i].jobid = f_answer.jobs[i].jobid
                      /\ f_ret.value[i].async
                      /\ f_ret.value[i].connHandler = f_answer.jobs[i].connHandler

\* Two jobs with different ids were listed and came back in their order.
C13_Witness ==
    /\ ListedJobs
    /\ ~f_answer.raises
    /\ Len(f_answer.jobs) = 2
    /\ f_answer.jobs[1].jobid # f_answer.jobs[2].jobid
    /\ f_ret.status = "returned"
    /\ f_ret.value[1].jobid = f_answer.jobs[1].jobid
    /\ f_ret.value[2].jobid = f_answer.jobs[2].jobid

\* The client's listing raised an HTTP error and the method returned None.
C13_HttpErrorReached ==
    /\ ListedJobs
    /\ f_answer.raises
    /\ f_answer.error = HTTPError
    /\ f_ret.status = "returned"
    /\ f_ret.kind = "None"

Injected == cadctap \in TapPlusHandlers

Called(method) == f_pc = "done" /\ f_call.method = method

\* The client's value came back to the caller as it was.
ReturnedUnchanged ==
    ~f_answer.raises =>
        /\ f_ret.status = "returned"
        /\ f_ret.value = f_answer.value

\* C14: with a TAP client injected at construction, each call of get_tables,
\* get_table, load_async_job, save_results and logout makes exactly one call
\* on that client, of the corresponding operation, with the caller's
\* arguments or the defaults only_names=False and verbose=False, and returns
\* the client's value unchanged.
C14_DelegatesToInjectedClient ==
    Injected =>
        /\ Called("get_tables") =>
               /\ OnlyCall("load_tables",
                           <<Passed(f_call.args[1]), Passed(f_call.args[2])>>,
                           <<>>)
               /\ ReturnedUnchanged
        /\ Called("get_table") =>
               /\ OnlyCall("load_table",
                           <<f_call.args[1], Passed(f_call.args[2])>>, <<>>)
               /\ ReturnedUnchanged
        /\ Called("load_async_job") =>
               /\ OnlyCall("load_async_job", <<f_call.args[1]>>,
                           [verbose |-> Passed(f_call.args[2])])
               /\ ReturnedUnchanged
        /\ Called("save_results") =>
               /\ OnlyCall("save_results",
                           <<f_call.args[1], f_call.args[2],
                             Passed(f_call.args[3])>>, <<>>)
               /\ ReturnedUnchanged
        /\ Called("logout") =>
               /\ OnlyCall("logout", <<Passed(f_call.args[1])>>, <<>>)
               /\ ReturnedUnchanged

\* get_tables(only_names=True) on an object with an injected client: the
\* client was asked once for its tables with (True, False) and its value
\* came back.
C14_Witness ==
    /\ Injected
    /\ Called("get_tables")
    /\ f_call.args = <<Given(TRUE), Omitted>>
    /\ f_calls[1].on \in TapPlusHandlers
    /\ f_calls[1].args = <<TRUE, FALSE>>
    /\ ~f_answer.raises
    /\ f_ret.value = "value 2"

====
